---- MODULE Spec2Model ----
(***************************************************************************)
(* Model of the Enterprise AI Analytics Copilot core:                      *)
(*   - SQLGuard.is_safe_query (src/sql_guard.py) and its caller            *)
(*     AnalyticsCopilot.validate_and_execute_sql (src/app.py);             *)
(*   - SchemaRAG (src/rag.py): load_schema_from_file, clear_collection,    *)
(*     retrieve_relevant_schema over a Chroma collection.                  *)
(* Strings are sequences of one-character strings, so that strip(), the    *)
(* regular expressions and the string splits act on characters.            *)
(***************************************************************************)
EXTENDS Integers, Sequences, FiniteSets, TLC

VARIABLES
    sql_editor,    \* content of the "Review and edit the SQL query" text area
    typed,         \* number of pieces typed into the text area
    call,          \* last validate_and_execute_sql call: its input, verdict, return value
    db_executed,   \* number of cursor.execute calls the database has received
    schema_file,   \* content of the schema file on disk (Missing: no such file)
    collection,    \* documents of the Chroma collection "database_schema", in insertion order
    last,          \* last SchemaRAG call and its outcome
    writes         \* the last index-writing calls ("load", "clear"), oldest first

guard_vars == <<sql_editor, typed, call, db_executed>>
index_vars == <<schema_file, collection, last, writes>>
vars == <<sql_editor, typed, call, db_executed, schema_file, collection, last, writes>>

(***************************************************************************)
(* Bounds                                                                  *)
(***************************************************************************)
MaxCandPieces == 3
MaxExecutes == 2
MaxSchemaPieces == 3
MaxDocs == 3
MaxTopK == 3

(***************************************************************************)
(* Characters                                                              *)
(***************************************************************************)
LowerCase == <<"a","b","c","d","e","f","g","h","i","j","k","l","m",
               "n","o","p","q","r","s","t","u","v","w","x","y","z">>
UpperCase == <<"A","B","C","D","E","F","G","H","I","J","K","L","M",
               "N","O","P","Q","R","S","T","U","V","W","X","Y","Z">>
Digits == <<"0","1","2","3","4","5","6","7","8","9">>

Range(f) == {f[i] : i \in DOMAIN f}

LowerChars == Range(LowerCase)
UpperOf == [c \in LowerChars |-> UpperCase[CHOOSE i \in 1..26 : LowerCase[i] = c]]
WordChars == Range(LowerCase) \cup Range(UpperCase) \cup Range(Digits) \cup {"_"}

\* str.upper() on one character (what re.IGNORECASE compares modulo)
ToUpper(c) == IF c \in LowerChars THEN UpperOf[c] ELSE c

\* \w of the re module
IsWordChar(c) == c \in WordChars

\* \s of the re module, and what str.strip() removes
IsSpace(c) == c \in {" ", "\t", "\n", "\r"}

RECURSIVE Flatten(_)
Flatten(ss) == IF ss = <<>> THEN <<>> ELSE Head(ss) \o Flatten(Tail(ss))

Min(a, b) == IF a <= b THEN a ELSE b

(***************************************************************************)
(* str.strip()                                                             *)
(***************************************************************************)
RECURSIVE LStrip(_)
LStrip(s) == IF s # <<>> /\ IsSpace(Head(s)) THEN LStrip(Tail(s)) ELSE s

RECURSIVE RStrip(_)
RStrip(s) ==
    IF s # <<>> /\ IsSpace(s[Len(s)]) THEN RStrip(SubSeq(s, 1, Len(s) - 1)) ELSE s

Strip(s) == RStrip(LStrip(s))

(***************************************************************************)
(* The re module, for the patterns the code uses.  A pattern is a sequence *)
(* of tokens: "\\b", "\\s+", "\\s*", "^", or a literal character.          *)
(***************************************************************************)
\* \b at position i: between s[i-1] and s[i], exactly one of them a word character
WordBoundary(s, i) ==
    LET before == i > 1 /\ i - 1 <= Len(s) /\ IsWordChar(s[i - 1])
        after == i >= 1 /\ i <= Len(s) /\ IsWordChar(s[i])
    IN before # after

\* tokens k.. of pat match s from position i on (re.IGNORECASE, backtracking)
RECURSIVE MatchFrom(_, _, _, _)
MatchFrom(pat, k, s, i) ==
    IF k > Len(pat) THEN TRUE
    ELSE CASE pat[k] = "^" -> i = 1 /\ MatchFrom(pat, k + 1, s, i)
           [] pat[k] = "\\b" -> WordBoundary(s, i) /\ MatchFrom(pat, k + 1, s, i)
           [] pat[k] = "\\s+" ->
                \E j \in (i + 1)..(Len(s) + 1) :
                    /\ \A m \in i..(j - 1) : IsSpace(s[m])
                    /\ MatchFrom(pat, k + 1, s, j)
           [] pat[k] = "\\s*" ->
                \E j \in i..(Len(s) + 1) :
                    /\ \A m \in i..(j - 1) : IsSpace(s[m])
                    /\ MatchFrom(pat, k + 1, s, j)
           [] OTHER ->
                /\ i <= Len(s)
                /\ ToUpper(s[i]) = ToUpper(pat[k])
                /\ MatchFrom(pat, k + 1, s, i + 1)

\* re.match in the place of re.search: the pattern is tried at the start only
ReSearch_AtStart(pat, s) == MatchFrom(pat, 1, s, 1)

\* re.search(pat, s, re.IGNORECASE) is not None
ReSearch(pat, s) == \E i \in 1..(Len(s) + 1) : MatchFrom(pat, 1, s, i)

\* re.match(pat, s, re.IGNORECASE) is not None
ReMatch(pat, s) == MatchFrom(pat, 1, s, 1)

(***************************************************************************)
(* SQLGuard                                                                *)
(***************************************************************************)
\* the list with the closing \b of every pattern left out
DANGEROUS_KEYWORDS_NoClosingBoundary ==
    << <<"\\b","D","R","O","P">>,
       <<"\\b","D","E","L","E","T","E">>,
       <<"\\b","U","P","D","A","T","E">>,
       <<"\\b","I","N","S","E","R","T">>,
       <<"\\b","A","L","T","E","R">>,
       <<"\\b","T","R","U","N","C","A","T","E">>,
       <<"\\b","C","R","E","A","T","E","\\s+","T","A","B","L","E">>,
       <<"\\b","G","R","A","N","T">>,
       <<"\\b","R","E","V","O","K","E">> >>

DANGEROUS_KEYWORDS ==
    << <<"\\b","D","R","O","P","\\b">>,
       <<"\\b","D","E","L","E","T","E","\\b">>,
       <<"\\b","U","P","D","A","T","E","\\b">>,
       <<"\\b","I","N","S","E","R","T","\\b">>,
       <<"\\b","A","L","T","E","R","\\b">>,
       <<"\\b","T","R","U","N","C","A","T","E","\\b">>,
       <<"\\b","C","R","E","A","T","E","\\s+","T","A","B","L","E","\\b">>,
       <<"\\b","G","R","A","N","T","\\b">>,
       <<"\\b","R","E","V","O","K","E","\\b">> >>

SELECT_PATTERN == <<"^","\\s*","S","E","L","E","C","T","\\b">>

\* dangerous_keyword.replace(r'\b', '').replace(r'\s+', ' ')
RECURSIVE KeywordName(_)
KeywordName(pat) ==
    IF pat = <<>> THEN <<>>
    ELSE IF Head(pat) = "\\b" THEN KeywordName(Tail(pat))
    ELSE IF Head(pat) = "\\s+" THEN <<" ">> \o KeywordName(Tail(pat))
    ELSE <<Head(pat)>> \o KeywordName(Tail(pat))

MSG_EMPTY == <<"Query cannot be empty">>
MSG_FORBIDDEN == "Query contains forbidden operation: "
MSG_NOT_SELECT == <<"Only SELECT queries are allowed">>
MSG_SAFE == <<"Query is safe to execute">>

\* the for loop over DANGEROUS_KEYWORDS: the first pattern of the list that is found
FirstDangerous(q) ==
    LET hits == {n \in DOMAIN DANGEROUS_KEYWORDS : ReSearch(DANGEROUS_KEYWORDS[n], q)}
    IN IF hits = {} THEN 0 ELSE CHOOSE n \in hits : \A m \in hits : n <= m

\* the begins-with-SELECT check made before the forbidden-operation loop
is_safe_query_SelectFirst(sql_query) ==
    LET q == Strip(sql_query)
        n == FirstDangerous(q)
    IN IF q = <<>> THEN [is_safe |-> FALSE, message |-> MSG_EMPTY]
       ELSE IF ~ReMatch(SELECT_PATTERN, q)
            THEN [is_safe |-> FALSE, message |-> MSG_NOT_SELECT]
       ELSE IF n # 0
            THEN [is_safe |-> FALSE,
                  message |-> <<MSG_FORBIDDEN>> \o KeywordName(DANGEROUS_KEYWORDS[n])]
       ELSE [is_safe |-> TRUE, message |-> MSG_SAFE]

is_safe_query(sql_query) ==
    LET q == Strip(sql_query)
        n == FirstDangerous(q)
    IN IF q = <<>> THEN [is_safe |-> FALSE, message |-> MSG_EMPTY]
       ELSE IF n # 0
            THEN [is_safe |-> FALSE,
                  message |-> <<MSG_FORBIDDEN>> \o KeywordName(DANGEROUS_KEYWORDS[n])]
       ELSE IF ~ReMatch(SELECT_PATTERN, q)
            THEN [is_safe |-> FALSE, message |-> MSG_NOT_SELECT]
       ELSE [is_safe |-> TRUE, message |-> MSG_SAFE]

(***************************************************************************)
(* AnalyticsCopilot.validate_and_execute_sql                               *)
(***************************************************************************)
None == [none |-> TRUE]
Rows(rs) == [none |-> FALSE, rows |-> rs]

\* what cursor.execute / fetchall can do with a statement: rows, or an exception
ExecOutcomes == {"rows0", "rows1", "sqlite3.Error", "Exception"}

\* the gate left open whatever the verdict
ExecutionAllowed_Always(verdict) == TRUE

\* "if not is_safe: return ..." : execution goes on only past a safe verdict
ExecutionAllowed(verdict) == verdict.is_safe

NoCall == [sql_query |-> <<>>, verdict |-> None, executed |-> FALSE,
           db_before |-> 0, result |-> None]

ValidateAndExecuteSql(sql_query) ==
    LET verdict == is_safe_query(sql_query)
    IN IF ~ExecutionAllowed(verdict)
       THEN /\ call' = [sql_query |-> sql_query, verdict |-> verdict,
                        executed |-> FALSE, db_before |-> db_executed,
                        result |-> [success |-> FALSE, results |-> None,
                                    message |-> <<"Security Check Failed: ">>
                                                  \o verdict.message]]
            /\ UNCHANGED db_executed
       ELSE /\ db_executed < MaxExecutes
            /\ db_executed' = db_executed + 1
            /\ \E out \in ExecOutcomes :
                 LET rows == IF out = "rows1" THEN <<"row">> ELSE <<>>
                     res == CASE out \in {"rows0", "rows1"} ->
                                   [success |-> TRUE, results |-> Rows(rows),
                                    message |-> <<"Query executed successfully. rows returned: ",
                                                  Digits[Len(rows) + 1]>>]
                              [] out = "sqlite3.Error" ->
                                   [success |-> FALSE, results |-> None,
                                    message |-> <<"Database Error: ">>]
                              [] OTHER ->
                                   [success |-> FALSE, results |-> None,
                                    message |-> <<"Error executing query: ">>]
                 IN call' = [sql_query |-> sql_query, verdict |-> verdict,
                             executed |-> TRUE, db_before |-> db_executed,
                             result |-> res]

(***************************************************************************)
(* SchemaRAG                                                               *)
(***************************************************************************)
CREATE_TABLE == <<"C","R","E","A","T","E"," ","T","A","B","L","E">>

StartsWith(s, sep) == Len(sep) <= Len(s) /\ SubSeq(s, 1, Len(sep)) = sep

\* the position of the first occurrence of sep in s, 0 when there is none
Find(s, sep) ==
    LET at == {i \in 1..(Len(s) - Len(sep) + 1) : SubSeq(s, i, i + Len(sep) - 1) = sep}
    IN IF at = {} THEN 0 ELSE CHOOSE i \in at : \A j \in at : i <= j

\* s.split(sep)
RECURSIVE Split(_, _)
Split(s, sep) ==
    LET i == Find(s, sep)
    IN IF i = 0 THEN <<s>>
       ELSE <<SubSeq(s, 1, i - 1)>> \o Split(SubSeq(s, i + Len(sep), Len(s)), sep)

\* s.replace(sep, '')
Remove(s, sep) == Flatten(Split(s, sep))

\* str(i) for i >= 0
RECURSIVE IntToStr(_)
IntToStr(i) ==
    IF i < 10 THEN <<Digits[i + 1]>>
    ELSE IntToStr(i \div 10) \o <<Digits[(i % 10) + 1]>>

\* the loop body of load_schema_from_file for the i-th block after the first split
TableDocument(block0, i) ==
    LET block == CREATE_TABLE \o block0
        table_match == Strip(Remove(Split(block, <<"\n">>)[1], CREATE_TABLE))
        table_name == Strip(Split(table_match, <<"(">>)[1])
    IN [id |-> <<"t","a","b","l","e","_">> \o table_name \o <<"_">> \o IntToStr(i),
        document |-> block,
        metadata |-> [table |-> table_name, type |-> "table_definition"]]

\* the documents load_schema_from_file builds from the file content
ParseSchema(schema_content) ==
    LET table_blocks == Split(schema_content, CREATE_TABLE)
    IN [n \in 1..(Len(table_blocks) - 1) |-> TableDocument(table_blocks[n + 1], n - 1)]

IdsOf(docs) == [n \in DOMAIN docs |-> docs[n].id]

HasDuplicates(ids) == \E m, n \in DOMAIN ids : m # n /\ ids[m] = ids[n]

\* collection.add(documents, ids, metadatas).  Ids that are all new are appended in
\* order.  What the store does with an id it already holds, or with a repeated id, is
\* the installed Chroma's choice: it raises and adds nothing, or it skips the ids it
\* holds, or it stores the documents again.
CollectionAdd(coll, docs) ==
    LET held == Range(IdsOf(coll))
        clash == HasDuplicates(IdsOf(docs)) \/ \E n \in DOMAIN docs : docs[n].id \in held
        fresh == SelectSeq(docs, LAMBDA d : d.id \notin held)
    IN IF ~clash THEN {[raised |-> "none", collection |-> coll \o docs]}
       ELSE {[raised |-> "DuplicateIDError", collection |-> coll],
             [raised |-> "none", collection |-> coll \o fresh],
             [raised |-> "none", collection |-> coll \o docs]}

\* the sequences of n distinct documents of coll, in any ranking
Rankings(coll, n) ==
    {[k \in 1..n |-> coll[r[k]]] :
        r \in {q \in [1..n -> DOMAIN coll] : \A a, b \in 1..n : a # b => q[a] # q[b]}}

\* collection.query(query_texts=[query], n_results=n): the n nearest documents.  A
\* request for no results (n <= 0), or any request on a collection without documents,
\* is the installed Chroma's choice between an exception and an empty answer.
CollectionQuery(coll, n) ==
    IF n <= 0 \/ Len(coll) = 0
    THEN {[raised |-> "QueryError", documents |-> <<>>],
          [raised |-> "none", documents |-> <<>>]}
    ELSE {[raised |-> "none", documents |-> r] : r \in Rankings(coll, Min(n, Len(coll)))}

NoFile == [exists |-> FALSE, content |-> <<>>]

NoRagCall == [op |-> "init", raised |-> "none", before |-> <<>>, segments |-> 0,
              add_ids |-> <<>>, top_k |-> 0, returned |-> <<>>]

\* the last three index-writing calls
Remember(op) ==
    LET w == Append(writes, [op |-> op, held |-> Len(collection)])
    IN IF Len(w) > 3 THEN Tail(w) ELSE w

\* load_schema_from_file("sample_schema.txt")
LoadSchemaFromFile ==
    /\ writes' = Remember("load")
    /\ UNCHANGED <<schema_file, guard_vars>>
    /\ IF ~schema_file.exists
       THEN /\ last' = [NoRagCall EXCEPT !.op = "load", !.raised = "FileNotFoundError",
                                         !.before = collection]
            /\ UNCHANGED collection
       ELSE LET docs == ParseSchema(schema_file.content)
            IN IF docs = <<>>
               THEN /\ last' = [NoRagCall EXCEPT !.op = "load", !.before = collection]
                    /\ UNCHANGED collection
               ELSE /\ Len(collection) + Len(docs) <= MaxDocs
                    /\ \E out \in CollectionAdd(collection, docs) :
                         /\ collection' = out.collection
                         /\ last' = [NoRagCall EXCEPT !.op = "load",
                                         !.raised = out.raised,
                                         !.before = collection,
                                         !.segments = Len(docs),
                                         !.add_ids = IdsOf(docs)]

\* delete_collection then get_or_create_collection leaving the documents in place
Recreated_Kept(coll) == coll

\* delete_collection(name="database_schema") then get_or_create_collection
Recreated(coll) == <<>>

\* clear_collection()
ClearCollection ==
    /\ collection' = Recreated(collection)
    /\ last' = [NoRagCall EXCEPT !.op = "clear", !.before = collection]
    /\ writes' = Remember("clear")
    /\ UNCHANGED <<schema_file, guard_vars>>

\* retrieve_relevant_schema(query, n_results); the distances are left out
RetrieveRelevantSchema(n_results) ==
    LET count == Len(collection)
        n == Min(n_results, IF count # 0 THEN count ELSE 1)
    IN /\ \E out \in CollectionQuery(collection, n) :
            last' = [NoRagCall EXCEPT !.op = "retrieve",
                        !.raised = out.raised,
                        !.before = collection,
                        !.top_k = n_results,
                        !.returned = [k \in DOMAIN out.documents |->
                                        [content |-> out.documents[k].document,
                                         metadata |-> out.documents[k].metadata]]]
       /\ UNCHANGED <<schema_file, collection, writes, guard_vars>>

Retrieve == \E n_results \in 0..MaxTopK : RetrieveRelevantSchema(n_results)

\* what a schema file is made of
SchemaPieces == { CREATE_TABLE, <<" ">>, <<"\n">>, <<"a">>, <<"(">> }

SchemaTexts ==
    UNION { {Flatten(ps) : ps \in [1..n -> SchemaPieces]} : n \in 0..MaxSchemaPieces }

SchemaFiles == {[exists |-> TRUE, content |-> c] : c \in SchemaTexts} \cup {NoFile}

IndexInit ==
    /\ schema_file \in SchemaFiles
    /\ collection = <<>>
    /\ last = NoRagCall
    /\ writes = <<>>
    /\ sql_editor = <<>>
    /\ typed = 0
    /\ call = NoCall
    /\ db_executed = 0

IndexNext == LoadSchemaFromFile \/ ClearCollection \/ Retrieve

SpecIndex == IndexInit /\ [][IndexNext]_vars


(***************************************************************************)
(* The caller of validate_and_execute_sql                                  *)
(***************************************************************************)
\* what the user can type into the text area in one step
CandPieces ==
    { <<"S","e","l","e","c","t">>, <<" ">>, <<"u","p","d","a","t","e">>,
      <<"u","p","d","a","t","e","d","_","a","t">>, <<";">>, <<"C","r","e","a","t","e">>, <<"T","A","B","L","E">> }

\* the user appends a piece to the text area; the previous call's locals are gone
Type ==
    /\ typed < MaxCandPieces
    /\ \E p \in CandPieces : sql_editor' = sql_editor \o p
    /\ typed' = typed + 1
    /\ call' = NoCall
    /\ UNCHANGED <<db_executed, index_vars>>

\* the user empties the text area
ClearEditor ==
    /\ typed > 0
    /\ sql_editor' = <<>>
    /\ typed' = 0
    /\ call' = NoCall
    /\ UNCHANGED <<db_executed, index_vars>>

\* the Execute button: validate_and_execute_sql(sql_display)
Execute ==
    /\ ValidateAndExecuteSql(sql_editor)
    /\ UNCHANGED <<sql_editor, typed, index_vars>>

GuardInit ==
    /\ sql_editor = <<>>
    /\ typed = 0
    /\ call = NoCall
    /\ db_executed = 0
    /\ schema_file = NoFile
    /\ collection = <<>>
    /\ last = NoRagCall
    /\ writes = <<>>

GuardNext == Type \/ ClearEditor \/ Execute

SpecGuard == GuardInit /\ [][GuardNext]_vars

(***************************************************************************)
(* The guard's rules as the specification words them, on characters:       *)
(* a forbidden operation is a sequence of words; it occurs in t from i to  *)
(* j-1 when its words are spelled there in any letter case, separated by   *)
(* whitespace; the occurrence is embedded when a letter, digit or          *)
(* underscore is directly adjacent to it.                                  *)
(***************************************************************************)
ForbiddenOps ==
    << << <<"D","R","O","P">> >>,
       << <<"D","E","L","E","T","E">> >>,
       << <<"U","P","D","A","T","E">> >>,
       << <<"I","N","S","E","R","T">> >>,
       << <<"A","L","T","E","R">> >>,
       << <<"T","R","U","N","C","A","T","E">> >>,
       << <<"C","R","E","A","T","E">>, <<"T","A","B","L","E">> >>,
       << <<"G","R","A","N","T">> >>,
       << <<"R","E","V","O","K","E">> >> >>

SameLetter(a, b) ==
    a = b \/ \E n \in 1..26 : {a, b} = {LowerCase[n], UpperCase[n]}

WordAt(w, t, i) ==
    /\ i + Len(w) - 1 <= Len(t)
    /\ \A k \in 1..Len(w) : SameLetter(t[i + k - 1], w[k])

\* the positions j such that words is spelled in t from i to j-1
RECURSIVE OccurrenceEnds(_, _, _)
OccurrenceEnds(words, t, i) ==
    IF ~WordAt(Head(words), t, i) THEN {}
    ELSE LET e == i + Len(Head(words))
         IN IF Len(words) = 1 THEN {e}
            ELSE UNION { OccurrenceEnds(Tail(words), t, g) :
                           g \in {h \in (e + 1)..Len(t) :
                                    \A m \in e..(h - 1) : IsSpace(t[m])} }

Occurrences(n, t) ==
    UNION { {<<i, j>> : j \in OccurrenceEnds(ForbiddenOps[n], t, i)} : i \in 1..Len(t) }

Embedded(t, occ) ==
    \/ occ[1] > 1 /\ IsWordChar(t[occ[1] - 1])
    \/ occ[2] <= Len(t) /\ IsWordChar(t[occ[2]])

\* the forbidden operations with a whole-word occurrence in t
WholeWordOps(t) ==
    {n \in DOMAIN ForbiddenOps : \E occ \in Occurrences(n, t) : ~Embedded(t, occ)}

RECURSIVE OpName(_)
OpName(words) ==
    IF Len(words) = 1 THEN Head(words)
    ELSE Head(words) \o <<" ">> \o OpName(Tail(words))

Trimmed(s) ==
    LET solid == {i \in DOMAIN s : ~IsSpace(s[i])}
    IN IF solid = {} THEN <<>>
       ELSE SubSeq(s, CHOOSE i \in solid : \A j \in solid : i <= j,
                      CHOOSE i \in solid : \A j \in solid : j <= i)

BeginsWithSelect(t) ==
    /\ WordAt(<<"S","E","L","E","C","T">>, t, 1)
    /\ Len(t) = 6 \/ ~IsWordChar(t[7])

CallMade == call # NoCall

\* C1: validate_and_execute_sql hands the candidate to the database only when
\* is_safe_query returned is_safe = TRUE for that same string; a rejected candidate
\* returns (False, None, message) and the database has received nothing.
C1_ExecutedOnlyIfSafe ==
    CallMade =>
        /\ call.verdict = is_safe_query(call.sql_query)
        /\ call.executed => call.verdict.is_safe
        /\ ~call.verdict.is_safe =>
              /\ ~call.executed
              /\ call.result.success = FALSE
              /\ call.result.results = None
              /\ call.result.message = <<"Security Check Failed: ">> \o call.verdict.message
              /\ db_executed = call.db_before

\* a candidate rejected after the database has already executed earlier statements
C1_Witness ==
    /\ CallMade
    /\ ~call.verdict.is_safe
    /\ call.db_before > 0

\* C2: the rules apply in the order empty, forbidden operation, begins with SELECT,
\* and the first failing rule decides verdict and reason; a whole-word forbidden
\* operation anywhere rejects with a reason naming a matched operation, also when the
\* string does not begin with SELECT.
C2_RuleOrder ==
    CallMade =>
        LET t == Trimmed(call.sql_query)
            v == call.verdict
        IN IF t = <<>> THEN v = [is_safe |-> FALSE, message |-> MSG_EMPTY]
           ELSE IF WholeWordOps(t) # {}
                THEN /\ ~v.is_safe
                     /\ \E n \in WholeWordOps(t) :
                          v.message = <<MSG_FORBIDDEN>> \o OpName(ForbiddenOps[n])
           ELSE IF ~BeginsWithSelect(t)
                THEN v = [is_safe |-> FALSE, message |-> MSG_NOT_SELECT]
           ELSE v = [is_safe |-> TRUE, message |-> MSG_SAFE]

\* a forbidden operation named for a candidate that does not begin with SELECT
C2_Witness ==
    /\ CallMade
    /\ ~BeginsWithSelect(Trimmed(call.sql_query))
    /\ WholeWordOps(Trimmed(call.sql_query)) # {}
    /\ Head(call.verdict.message) = MSG_FORBIDDEN

P8_Query ==
    <<"S","E","L","E","C","T"," ","u","p","d","a","t","e","d","_","a","t"," ",
      "F","R","O","M"," ","o","r","d","e","r","s">>

OnlyEmbeddedOccurrences(t) ==
    \A n \in DOMAIN ForbiddenOps : \A occ \in Occurrences(n, t) : Embedded(t, occ)

\* C3: a forbidden keyword occurring only embedded in a longer identifier does not
\* trigger rule 2: a candidate beginning with SELECT whose forbidden keywords all
\* occur embedded is SAFE, and so is "SELECT updated_at FROM orders".
C3_EmbeddedKeywordSafe ==
    /\ is_safe_query(P8_Query).is_safe
    /\ CallMade =>
         LET t == Trimmed(call.sql_query)
         IN BeginsWithSelect(t) /\ OnlyEmbeddedOccurrences(t) => call.verdict.is_safe

\* a SAFE candidate beginning with SELECT that does hold a forbidden keyword, embedded
C3_Witness ==
    /\ CallMade
    /\ BeginsWithSelect(Trimmed(call.sql_query))
    /\ \E n \in DOMAIN ForbiddenOps : Occurrences(n, Trimmed(call.sql_query)) # {}
    /\ OnlyEmbeddedOccurrences(Trimmed(call.sql_query))
    /\ call.verdict.is_safe

\* a SELECT the guard passes on its own
ValidSelect(p) == BeginsWithSelect(p) /\ WholeWordOps(p) = {}

\* the positions of a ";" that ends a valid SELECT
Splits(t) == {k \in DOMAIN t : t[k] = ";" /\ ValidSelect(SubSeq(t, 1, k - 1))}

SecondStatement(t, k) == SubSeq(t, k + 1, Len(t))

\* C4 as claimed: every candidate "<valid SELECT>; <second statement>" is SAFE.
C4_Original ==
    CallMade =>
        LET t == Trimmed(call.sql_query)
        IN Splits(t) # {} => call.verdict.is_safe

\* C4 as amended: a candidate "<valid SELECT>; <second statement>" passes rule 3, and
\* is SAFE exactly when the second statement holds no forbidden operation as a whole
\* word; otherwise rule 2 rejects it, naming an operation of the second statement.
C4_TrailingStatement ==
    CallMade =>
        LET t == Trimmed(call.sql_query)
            v == call.verdict
        IN \A k \in Splits(t) :
             /\ v.message # MSG_NOT_SELECT
             /\ v.is_safe <=> WholeWordOps(SecondStatement(t, k)) = {}
             /\ ~v.is_safe =>
                  \E n \in WholeWordOps(SecondStatement(t, k)) :
                     v.message = <<MSG_FORBIDDEN>> \o OpName(ForbiddenOps[n])

\* a SAFE candidate with a second statement (some word) after a valid SELECT
C4_Witness ==
    /\ CallMade
    /\ call.verdict.is_safe
    /\ \E k \in Splits(Trimmed(call.sql_query)) :
         \E m \in (k + 1)..Len(Trimmed(call.sql_query)) :
             IsWordChar(Trimmed(call.sql_query)[m])

(***************************************************************************)
(* The index's contract as the specification words it                      *)
(***************************************************************************)
\* the name a table segment declares: what follows the declaration keyword, after any
\* whitespace, up to the first opening parenthesis
DeclaredName(rawText) ==
    LET rest == SubSeq(rawText, Len(CREATE_TABLE) + 1, Len(rawText))
        paren == Find(rest, <<"(">>)
    IN Trimmed(IF paren = 0 THEN rest ELSE SubSeq(rest, 1, paren - 1))

UNKNOWN_ID == <<"t","a","b","l","e","_","u","n","k","n","o","w","n","_">>

\* C5 as claimed: every id held by the index is unique, and a load neither hands the
\* store an id the index already holds nor the same id for two segments.
C5_UniqueIds ==
    /\ ~HasDuplicates(IdsOf(collection))
    /\ last.op = "load" =>
         /\ ~HasDuplicates(last.add_ids)
         /\ \A n \in DOMAIN last.add_ids :
              last.add_ids[n] \notin Range(IdsOf(last.before))

\* C6 as claimed: retrieve returns exactly min(topK, N) results, and on an empty index
\* an empty result without an error.
C6_RetrieveBound ==
    last.op = "retrieve" =>
        /\ last.raised = "none"
        /\ Len(last.returned) = Min(last.top_k, Len(last.before))

\* the documents a newly constructed index holds after loading the file
FreshLoad(file) == IF file.exists THEN ParseSchema(file.content) ELSE <<>>

\* C7: after reset() followed by load(S) the index holds exactly the documents of S,
\* in segment order, whatever it held before the reset: the same ids, order and
\* rawText as any other reset()+load(S).
C7_ResetThenLoad ==
    (/\ Len(writes) >= 2
     /\ writes[Len(writes) - 1].op = "clear"
     /\ writes[Len(writes)].op = "load")
    => /\ collection = FreshLoad(schema_file)
       /\ ~HasDuplicates(IdsOf(collection))

\* a non-empty index reset and loaded again with a schema of two segments
C7_Witness ==
    /\ Len(writes) = 3
    /\ writes[2].op = "clear"
    /\ writes[2].held > 0
    /\ writes[3].op = "load"
    /\ Len(collection) >= 2

\* C8 as claimed: load fails when the file is unreadable or holds no table segment,
\* and then leaves the document set unchanged.
C8_LoadFailsWithoutTables ==
    (last.op = "load" /\ (~schema_file.exists \/ last.segments = 0))
    => /\ last.raised # "none"
       /\ collection = last.before

\* C9 as claimed: a segment whose name cannot be parsed is indexed under
\* "table_unknown_<position>" with its full rawText.
C9_UnknownFallback ==
    \A n \in DOMAIN collection :
        DeclaredName(collection[n].document) = <<>> =>
            /\ \E k \in 0..MaxDocs : collection[n].id = UNKNOWN_ID \o IntToStr(k)
            /\ StartsWith(collection[n].document, CREATE_TABLE)

\* C10 as claimed: tableName is what follows the declaration keyword, whatever
\* whitespace separates them, up to the first opening parenthesis; rawText is the
\* full segment including the keyword.
C10_TableName ==
    \A n \in DOMAIN collection :
        /\ collection[n].metadata.table = DeclaredName(collection[n].document)
        /\ StartsWith(collection[n].document, CREATE_TABLE)

====
